---------------------------- MODULE Spec2Model ----------------------------
(***************************************************************************)
(* Localization management API: the translation service                   *)
(* (src/src/localization_management_api/services.py) and the HTTP entry    *)
(* points that wrap it (src/src/localization_management_api/main.py),      *)
(* over a relational store with the tables translation_keys, translations  *)
(* and project_languages.                                                  *)
(*                                                                         *)
(* Text that the code inspects character by character (a translation      *)
(* value, a key name, a search text) is a sequence of one-character        *)
(* strings; identifiers, categories and language codes are strings.        *)
(* An Optional[...] parameter is None (the empty tuple) or Some(x).        *)
(***************************************************************************)
EXTENDS Integers, Sequences, FiniteSets, TLC

VARIABLES
    translation_keys,   \* table translation_keys: rows in the order the store returns them
    translations,       \* table translations: per (translation_key_id, language_code), its rows in insertion order
    project_languages,  \* table project_languages: rows [project_id, language_code]
    query,              \* the GET /projects/{id}/translation-keys request in flight, if any
    resp,               \* the response to it ([status |-> 0]: none yet)
    pc,                 \* per client: "idle", the repository call its request makes next, or "done"
    req,                \* per client: its current (or last finished) request
    loc,                \* per client: the local variables of the running request
    ret,                \* per client: what its last finished request gave its caller
    budget,             \* per client: requests it may still start (-1: any number)
    pre,                \* per client: the store as it was when the request started
    calls,              \* per client: the outcomes of the request's repository calls so far
    USERS_DB,           \* auth.USERS_DB: user id -> [user, password_hash]
    ACTIVE_TOKENS,      \* auth.ACTIVE_TOKENS: the tokens issued and not logged out
    issued,             \* every token a login has returned so far
    clock               \* datetime.utcnow(), in hours

storeVars  == <<translation_keys, translations, project_languages>>
queryVars  == <<query, resp>>
clientVars == <<pc, req, loc, ret, budget, pre, calls>>
authVars   == <<USERS_DB, ACTIVE_TOKENS, issued, clock>>

---------------------------------------------------------------------------
(* Bounds of the model *)

MaxKeys  == 3      \* key rows in a store of the query specification
MaxPage  == 2      \* page numbers 1..MaxPage
MaxLimit == 2      \* page sizes 1..MaxLimit

MaxBatch == 2      \* entries of a bulk update
MaxRows  == 2      \* translation rows of one (key, language) pair a request may add to

MaxTokens == 2     \* tokens the logins of a run may issue
MaxClock  == 24    \* hours the clock may reach

(* Program constants *)
LimitMax == 100    \* Query(50, ge=1, le=100)
JWT_EXPIRATION_HOURS == 24

KeyIdSeq   == <<"k1", "k2", "k3", "k4">>
KeyIds     == {KeyIdSeq[i] : i \in 1..Len(KeyIdSeq)}
Projects   == {"p1", "p2"}
Langs      == {"en", "fr"}
Categories == {"ui", "err"}
KeyTexts   == {<<"A", "b">>, <<"b", "_">>}
Values     == {<<>>, <<" ">>, <<"H", "i">>}

Clients    == {"c1", "c2"}
ReqKeyIds  == {"k1", "k2"}                 \* key ids a request may name, and uuid4 may draw
ReqValues  == {<<>>, <<"H", "i">>}         \* values a request may carry
SystemUser == "system"                     \* updated_by: str = "system"
Principal  == "admin"                      \* current_user.username of the authenticated caller

None    == <<>>
Some(x) == <<x>>

Min(a, b) == IF a < b THEN a ELSE b

\* a client with no request, no local variables, no result, no snapshot
NoReq == [op |-> "none"]
NoLoc == [existing |-> FALSE, i |-> 0, success_count |-> 0, log |-> <<>>]
NoRet == [kind |-> "none"]
NoPre == [keys |-> <<>>, rows |-> <<>>, again |-> FALSE, tokens |-> {}]

---------------------------------------------------------------------------
(* Python and SQL text primitives *)

IsSpace(c) == c \in {" ", "\t", "\n"}

RECURSIVE LStrip(_)
LStrip(s) == IF s # <<>> /\ IsSpace(Head(s)) THEN LStrip(Tail(s)) ELSE s

RECURSIVE RStrip(_)
RStrip(s) ==
    IF s # <<>> /\ IsSpace(s[Len(s)]) THEN RStrip(SubSeq(s, 1, Len(s) - 1)) ELSE s

\* str.strip()
Strip(s) == RStrip(LStrip(s))

LowerChar(c) == CASE c = "A" -> "a" [] c = "B" -> "b" [] c = "H" -> "h" [] OTHER -> c

Lower(s) == [i \in 1..Len(s) |-> LowerChar(s[i])]

\* SQL LIKE: % matches any run of characters, _ matches any one character
RECURSIVE LikeMatch(_, _)
LikeMatch(p, t) ==
    IF p = <<>> THEN t = <<>>
    ELSE IF Head(p) = "%"
         THEN LikeMatch(Tail(p), t) \/ (t # <<>> /\ LikeMatch(p, Tail(t)))
    ELSE IF Head(p) = "_"
         THEN t # <<>> /\ LikeMatch(Tail(p), Tail(t))
    ELSE t # <<>> /\ Head(p) = Head(t) /\ LikeMatch(Tail(p), Tail(t))

\* column ILIKE pattern
ILike(t, p) == LikeMatch(Lower(p), Lower(t))

\* seq[lo:hi] of Python for 0 <= lo
Slice(s, lo, hi) == SubSeq(s, lo + 1, Min(hi, Len(s)))

\* truthiness of an Optional[str] argument holding an identifier ("if category:")
Truthy(o) == o # None /\ o[1] # ""

\* truthiness of an Optional[str] argument holding text ("if search:")
TruthyText(o) == o # None /\ o[1] # <<>>

\* truthiness of an Optional[bool] argument ("if missing_translations:")
TruthyBool(o) == o # None /\ o[1]

---------------------------------------------------------------------------
(* Authentication: auth.py, and the dependencies get_current_user and require_auth *)

JWT_SECRET == "your-secret-key-change-this-in-production"
OtherSecret == "another-key"               \* the key of a token signed elsewhere
TickHours  == 12                           \* the step by which the clock advances

UserIdPool == {"u1", "u2", "u3"}           \* values secrets.token_urlsafe(16) may draw
Schemes    == {"Bearer", "bearer", "Basic"}

\* hash_password: SHA-256 of password + salt, kept as the text it digests
hash_password(password) == <<"sha256", password, "localization-salt">>

verify_password(password, hashed) == hash_password(password) = hashed

User(id, username, email) == [id |-> id, username |-> username, email |-> email, is_active |-> TRUE]

\* the users of initialize_default_users
DefaultUsers ==
    [id \in {"u1", "u2"} |->
        IF id = "u1"
        THEN [user |-> User("u1", "admin", "admin@example.com"),
              password_hash |-> hash_password("admin123")]
        ELSE [user |-> User("u2", "demo", "demo@example.com"),
              password_hash |-> hash_password("demo123")]]

\* authenticate_user: the users whose name, password and is_active match
Authenticated(login_data) ==
    {id \in DOMAIN USERS_DB :
        /\ USERS_DB[id].user.username = login_data.username
        /\ verify_password(login_data.password, USERS_DB[id].password_hash)
        /\ USERS_DB[id].user.is_active}

\* jwt.encode(payload, JWT_SECRET): the payload under the signature of the key
JwtEncode(payload, secret) ==
    [sub |-> payload.sub, username |-> payload.username, exp |-> payload.exp,
     iat |-> payload.iat, sig |-> secret]

\* jwt.decode(token, JWT_SECRET): the payload, or None for PyJWTError (a signature
\* of another key, or an expired token)
JwtDecode(token, secret) ==
    IF token.sig # secret \/ token.exp <= clock THEN None
    ELSE Some([sub |-> token.sub, username |-> token.username,
               exp |-> token.exp, iat |-> token.iat])

\* the token create_access_token builds for the user at the present time
AccessToken(user) ==
    JwtEncode([sub |-> user.id, username |-> user.username,
               exp |-> clock + JWT_EXPIRATION_HOURS, iat |-> clock], JWT_SECRET)

\* variant of verify_token: membership in ACTIVE_TOKENS is not tested
verify_token_IgnoresActiveSet(token) ==
    LET payload == JwtDecode(token, JWT_SECRET) IN
    IF payload = None THEN None
    ELSE IF payload[1].sub # "" /\ payload[1].sub \in DOMAIN USERS_DB
         THEN Some(USERS_DB[payload[1].sub].user)
    ELSE None

\* AuthService.verify_token
verify_token(token) ==
    IF token \notin ACTIVE_TOKENS THEN None
    ELSE LET payload == JwtDecode(token, JWT_SECRET) IN
         IF payload = None THEN None
         ELSE IF payload[1].sub # "" /\ payload[1].sub \in DOMAIN USERS_DB
              THEN Some(USERS_DB[payload[1].sub].user)
         ELSE None

\* str.lower() on the scheme of an Authorization header
LowerScheme(scheme) == IF scheme = "Bearer" THEN "bearer" ELSE IF scheme = "Basic" THEN "basic" ELSE scheme

\* get_current_user: authorization is None or Some(the words authorization.split() gives)
get_current_user(authorization) ==
    IF authorization = None \/ authorization[1] = <<>> THEN None
    ELSE LET parts == authorization[1] IN
         IF Len(parts) # 2 THEN None
         ELSE IF LowerScheme(parts[1]) # "bearer" THEN None
         ELSE verify_token(parts[2])

\* no login has happened yet
AuthInit ==
    /\ USERS_DB = DefaultUsers
    /\ ACTIVE_TOKENS = {}
    /\ issued = {}
    /\ clock = 0

---------------------------------------------------------------------------
(* get_translation_keys *)

\* the nested translations(...) rows of one key row, as the dict the code builds
\* from them (a later row of a language replaces an earlier one)
NestedTranslations(key_id) ==
    [l \in {x \in Langs : translations[key_id, x] # <<>>} |->
        translations[key_id, l][Len(translations[key_id, l])]]

\* dict.get
DictGet(d, k) == IF k \in DOMAIN d THEN Some(d[k]) ELSE None

\* variant of HasValidTranslation: the value is not stripped before the test
HasValidTranslation_NoStrip(trans, lang) ==
    LET translation == DictGet(trans, lang) IN
    /\ translation # None
    /\ translation[1].value # <<>>

\* translation and translation.value and translation.value.strip()
HasValidTranslation(trans, lang) ==
    LET translation == DictGet(trans, lang) IN
    /\ translation # None
    /\ translation[1].value # <<>>
    /\ Strip(translation[1].value) # <<>>

\* variant of HasAllTranslations: only the languages the key has a row for are tested
HasAllTranslations_OwnLanguages(trans, codes) ==
    \A l \in DOMAIN trans : HasValidTranslation(trans, l)

\* the has_all_translations loop over project_language_codes
RECURSIVE HasAllTranslations(_, _)
HasAllTranslations(trans, codes) ==
    IF codes = <<>> THEN TRUE
    ELSE IF ~HasValidTranslation(trans, Head(codes)) THEN FALSE
    ELSE HasAllTranslations(trans, Tail(codes))

\* project_languages.select("language_code").eq("project_id", project_id)
ProjectLanguageCodes(project_id) ==
    LET rows == SelectSeq(project_languages, LAMBDA r : r.project_id = project_id)
    IN  [i \in 1..Len(rows) |-> rows[i].language_code]

\* whether the loop body skips the row (continue)
SkipsRow(trans, q) ==
    IF TruthyBool(q.missing_translations)
    THEN IF Truthy(q.language_code)
         THEN HasValidTranslation(trans, q.language_code[1])
         ELSE HasAllTranslations(trans, ProjectLanguageCodes(q.project_id))
    ELSE FALSE

\* translation_keys.select(...).eq("project_id", ..)[.ilike("key", ..)][.eq("category", ..)]
QueryRows(q) ==
    SelectSeq(translation_keys, LAMBDA r :
        /\ r.project_id = q.project_id
        /\ (TruthyText(q.search) => ILike(r.key, <<"%">> \o q.search[1] \o <<"%">>))
        /\ (Truthy(q.category) => r.category = q.category[1]))

TranslationKey(row) ==
    [id |-> row.id, key |-> row.key, category |-> row.category,
     translations |-> NestedTranslations(row.id)]

\* the loop over result.data that fills filtered_translation_keys
RECURSIVE FilterRows(_, _)
FilterRows(rows, q) ==
    IF rows = <<>> THEN <<>>
    ELSE IF SkipsRow(NestedTranslations(Head(rows).id), q)
         THEN FilterRows(Tail(rows), q)
         ELSE <<TranslationKey(Head(rows))>> \o FilterRows(Tail(rows), q)

\* variant of TotalOf: the rows are counted before the missing-translations filter
TotalOf_BeforeFilter(rows, q) == Len(rows)

\* total = len(filtered_translation_keys)
TotalOf(rows, q) == Len(FilterRows(rows, q))

\* variant of Paginate: the page number is taken as 0-indexed
Paginate_ZeroIndexed(filtered, page, limit) ==
    LET offset == page * limit IN Slice(filtered, offset, offset + limit)

\* offset = (page - 1) * limit; filtered_translation_keys[offset:offset + limit]
Paginate(filtered, page, limit) ==
    LET offset == (page - 1) * limit IN Slice(filtered, offset, offset + limit)

get_translation_keys(q) ==
    LET rows == QueryRows(q) IN
    [keys  |-> Paginate(FilterRows(rows, q), q.page, q.limit),
     total |-> TotalOf(rows, q)]

\* GET /projects/{project_id}/translation-keys: the service's result, or 500 when
\* a repository call raises
GetTranslationKeys ==
    /\ query # None
    /\ resp.status = 0
    /\ \/ LET q == query[1]
              r == get_translation_keys(q) IN
          resp' = [status |-> 200, keys |-> r.keys, total |-> r.total,
                   page |-> q.page, limit |-> q.limit]
       \/ resp' = [status |-> 500]
    /\ UNCHANGED <<storeVars, query, clientVars, authVars>>

---------------------------------------------------------------------------
(* Stores of the query specification *)

NoRow == <<>>
TranslationRow(v, by) == [value |-> v, updated_by |-> by]

\* one key with every combination of name, category, project and translations
RichShapes ==
    [key : KeyTexts, category : Categories, project_id : Projects,
     trans : [Langs -> {None} \cup {Some(v) : v \in Values}]]

\* a few keys to fill pages with
SampleShapes ==
    { [key |-> <<"A", "b">>, category |-> "ui", project_id |-> "p1",
       trans |-> [l \in Langs |-> IF l = "en" THEN Some(<<"H", "i">>) ELSE Some(<<>>)]],
      [key |-> <<"b", "_">>, category |-> "err", project_id |-> "p1",
       trans |-> [l \in Langs |-> Some(<<"H", "i">>)]],
      [key |-> <<"b", "_">>, category |-> "ui", project_id |-> "p1",
       trans |-> [l \in Langs |-> None]],
      [key |-> <<"A", "b">>, category |-> "ui", project_id |-> "p2",
       trans |-> [l \in Langs |-> IF l = "en" THEN Some(<<" ">>) ELSE None]] }

LanguageRows(project_id, codes) ==
    [i \in 1..Len(codes) |-> [project_id |-> project_id, language_code |-> codes[i]]]

InitStoreOf(shape) ==
    /\ translation_keys =
        [i \in 1..Len(shape) |->
            [id |-> KeyIdSeq[i], key |-> shape[i].key,
             category |-> shape[i].category, project_id |-> shape[i].project_id]]
    /\ translations =
        [p \in KeyIds \X Langs |->
            IF \E i \in 1..Len(shape) : KeyIdSeq[i] = p[1] /\ shape[i].trans[p[2]] # None
            THEN LET i == CHOOSE j \in 1..Len(shape) : KeyIdSeq[j] = p[1]
                 IN  <<TranslationRow(shape[i].trans[p[2]][1], "system")>>
            ELSE NoRow]

\* queries that exercise the filters, put to a store of one key
FilterQueries ==
    [project_id : Projects,
     page : {1},
     limit : {Min(MaxLimit, LimitMax)},
     search : {None, Some(<<"a">>), Some(<<"_">>)},
     category : {None, Some(""), Some("ui")},
     language_code : {None, Some(""), Some("en"), Some("fr")},
     missing_translations : {None, Some(FALSE), Some(TRUE)}]

\* queries that exercise the pages, put to a store of several keys
PageQueries ==
    [project_id : {"p1"},
     page : 1..MaxPage,
     limit : 1..Min(MaxLimit, LimitMax),
     search : {None, Some(<<"a">>)},
     category : {None, Some("ui")},
     language_code : {None, Some("fr")},
     missing_translations : {None, Some(TRUE)}]

InitQuery ==
    /\ \E n \in 0..MaxKeys :
        /\ \E shape \in [1..n -> IF n = 1 THEN RichShapes ELSE SampleShapes] :
              InitStoreOf(shape)
        /\ \E q \in IF n = 1 THEN FilterQueries ELSE PageQueries : query = Some(q)
    /\ \E codes \in {<<>>, <<"en">>, <<"fr">>, <<"en", "fr">>} :
        project_languages = LanguageRows("p1", codes) \o LanguageRows("p2", <<"en">>)
    /\ resp = [status |-> 0]
    /\ pc = [c \in Clients |-> "idle"]
    /\ req = [c \in Clients |-> NoReq]
    /\ loc = [c \in Clients |-> NoLoc]
    /\ ret = [c \in Clients |-> NoRet]
    /\ budget = [c \in Clients |-> 0]
    /\ pre = [c \in Clients |-> NoPre]
    /\ calls = [c \in Clients |-> <<>>]
    /\ AuthInit

vars == <<translation_keys, translations, project_languages, query, resp,
          pc, req, loc, ret, budget, pre, calls,
          USERS_DB, ACTIVE_TOKENS, issued, clock>>

SpecQuery == InitQuery /\ [][GetTranslationKeys]_vars

---------------------------------------------------------------------------
(* The repository: what each call does to the tables *)

KeyExists(tk, key_id) == \E i \in 1..Len(tk) : tk[i].id = key_id

\* translations.select("id").eq("translation_key_id", k).eq("language_code", l): existing.data
SelectTranslation(tr, key_id, lang) == tr[key_id, lang] # <<>>

\* translations.update({value, updated_by}).eq(...).eq(...): every matching row
UpdateRows(tr, key_id, lang, value, by) ==
    [tr EXCEPT ![key_id, lang] = [i \in 1..Len(@) |-> TranslationRow(value, by)]]

\* translations.insert({...}): one more row
InsertRow(tr, key_id, lang, value, by) ==
    [tr EXCEPT ![key_id, lang] = Append(@, TranslationRow(value, by))]

\* the foreign key translations.translation_key_id -> translation_keys.id
\* ("Delete all translations for this key first (due to foreign key constraints)")
InsertAllowed(tk, key_id) == KeyExists(tk, key_id)
DeleteKeyAllowed(tr, key_id) == \A l \in Langs : tr[key_id, l] = <<>>

\* translations.delete().eq("translation_key_id", key_id)
DeleteRowsOf(tr, key_id) ==
    [p \in DOMAIN tr |-> IF p[1] = key_id THEN <<>> ELSE tr[p]]

\* variant of DeleteKeyRows: the key row stays in the table
DeleteKeyRows_KeepsRow(tk, key_id) == tk

\* translation_keys.delete().eq("id", key_id): the table left, and result.data
DeleteKeyRows(tk, key_id) == SelectSeq(tk, LAMBDA r : r.id # key_id)
DeletedKeyRows(tk, key_id) == SelectSeq(tk, LAMBDA r : r.id = key_id)

\* get_translation_key_by_id: None, or the hydrated first row
get_translation_key_by_id(key_id) ==
    LET rows == SelectSeq(translation_keys, LAMBDA r : r.id = key_id) IN
    IF rows = <<>> THEN None ELSE Some(TranslationKey(rows[1]))

---------------------------------------------------------------------------
(* Requests *)


Return(v)    == [kind |-> "return", value |-> v]
Raise        == [kind |-> "raise"]
Http(status) == [kind |-> "http", status |-> status]

Updates ==
    [key_id : ReqKeyIds, language_code : Langs, value : ReqValues, updated_by : {Principal}]

RECURSIVE SeqsUpTo(_, _)
SeqsUpTo(S, n) ==
    IF n = 0 THEN {<<>>}
    ELSE SeqsUpTo(S, n - 1) \cup {Append(b, e) : b \in {x \in SeqsUpTo(S, n - 1) : Len(x) = n - 1}, e \in S}

\* the entries of a bulk update: {key_id, language_code, value, updated_by}
BulkUpdates ==
    [key_id : ReqKeyIds, language_code : {"en"}, value : ReqValues, updated_by : {Principal}]

Batches == SeqsUpTo(BulkUpdates, MaxBatch)

InitialTranslations ==
    {None, Some(<<>>), Some([l \in {"en"} |-> <<"H", "i">>]),
     Some([l \in Langs |-> IF l = "en" THEN <<"H", "i">> ELSE <<>>])}

ClientQueries ==
    [project_id : {"p1"}, page : {1}, limit : {Min(MaxLimit, LimitMax)},
     search : {None}, category : {None}, language_code : {None},
     missing_translations : {None, Some(TRUE)}]

CanStart(c) == pc[c] = "idle" /\ budget[c] # 0

\* the caller takes the result of its finished request
TakeResult(c) ==
    /\ pc[c] = "done"
    /\ pc' = [pc EXCEPT ![c] = "idle"]
    /\ req' = [req EXCEPT ![c] = NoReq]
    /\ ret' = [ret EXCEPT ![c] = NoRet]
    /\ pre' = [pre EXCEPT ![c] = NoPre]
    /\ calls' = [calls EXCEPT ![c] = <<>>]
    /\ UNCHANGED <<storeVars, queryVars, loc, budget, authVars>>

\* a request starts: its parameters, and a snapshot of the store together with
\* whether the client's previous request was the same one and returned True
Started(c, r) ==
    /\ req' = [req EXCEPT ![c] = r]
    /\ budget' = [budget EXCEPT ![c] = IF @ > 0 THEN @ - 1 ELSE @]
    /\ pre' = [pre EXCEPT ![c] =
                [keys |-> translation_keys, rows |-> translations,
                 again |-> (pc[c] = "done" /\ req[c] = r /\ ret[c].kind = "return"),
                 tokens |-> ACTIVE_TOKENS]]

Goto(c, label, l) ==
    /\ pc' = [pc EXCEPT ![c] = label]
    /\ loc' = [loc EXCEPT ![c] = l]
    /\ UNCHANGED ret

\* the first step of a request: its caller has no result yet
Begin(c, label, l) ==
    /\ pc' = [pc EXCEPT ![c] = label]
    /\ loc' = [loc EXCEPT ![c] = l]
    /\ ret' = [ret EXCEPT ![c] = NoRet]

Finish(c, r) ==
    /\ pc' = [pc EXCEPT ![c] = "done"]
    /\ loc' = [loc EXCEPT ![c] = NoLoc]
    /\ ret' = [ret EXCEPT ![c] = r]

Called(c, outcome) == calls' = [calls EXCEPT ![c] = Append(@, outcome)]

---------------------------------------------------------------------------
(* update_translation, and its callers bulk_update_translations and POST /translations *)

\* variant of CurrentUpdate: the bulk loop walks the entries from the last to the first
CurrentUpdate_Reversed(r, l) ==
    IF r.op = "bulk_update_translations" THEN r.updates[Len(r.updates) + 1 - l.i]
    ELSE [key_id |-> r.key_id, language_code |-> r.language_code,
          value |-> r.value, updated_by |-> r.updated_by]

\* the arguments of the update_translation call the client is in
CurrentUpdate(r, l) ==
    IF r.op = "bulk_update_translations" THEN r.updates[l.i]
    ELSE [key_id |-> r.key_id, language_code |-> r.language_code,
          value |-> r.value, updated_by |-> r.updated_by]

\* variant of AfterUpdate: the bulk loop ends at the first entry that raises
AfterUpdate_AbortsBatch(c, r, l, ok) ==
    CASE r.op = "update_translation" ->
            Finish(c, IF ok THEN Return(TRUE) ELSE Raise)
      [] r.op \in {"create_translation", "put_translation"} ->
            Finish(c, IF ok THEN Http(200) ELSE Http(400))
      [] r.op = "bulk_update_translations" ->
            LET count == IF ok THEN l.success_count + 1 ELSE l.success_count IN
            IF l.i = Len(r.updates) \/ ~ok
            THEN Finish(c, Return(count))
            ELSE Goto(c, "select_translation",
                      [l EXCEPT !.i = @ + 1, !.success_count = count,
                                !.log = Append(l.log, ok), !.existing = FALSE])

\* update_translation returned True (ok) or raised: what its caller does next
AfterUpdate(c, r, l, ok) ==
    CASE r.op = "update_translation" ->
            Finish(c, IF ok THEN Return(TRUE) ELSE Raise)
      [] r.op \in {"create_translation", "put_translation"} ->
            Finish(c, IF ok THEN Http(200) ELSE Http(400))
      [] r.op = "bulk_update_translations" ->
            LET count == IF ok THEN l.success_count + 1 ELSE l.success_count
                log == Append(l.log, ok) IN
            IF l.i = Len(r.updates)
            THEN Finish(c, Return(count))
            ELSE Goto(c, "select_translation",
                      [l EXCEPT !.i = @ + 1, !.success_count = count, !.log = log,
                                !.existing = FALSE])

\* existing = translations.select("id")...execute()
SelectStep(c, r, l) ==
    LET u == CurrentUpdate(r, l) IN
    \/ /\ Called(c, "ok")
       /\ Goto(c, "write_translation",
               [l EXCEPT !.existing = SelectTranslation(translations, u.key_id, u.language_code)])
    \/ /\ Called(c, "fail")
       /\ AfterUpdate(c, r, l, FALSE)

\* update_translation(key_id, language_code, value, updated_by): up to its first call
UpdateTranslation(c) ==
    /\ CanStart(c)
    /\ \E u \in Updates :
        LET r == [op |-> "update_translation", key_id |-> u.key_id,
                  language_code |-> u.language_code, value |-> u.value,
                  updated_by |-> u.updated_by] IN
        /\ Started(c, r)
        /\ calls' = [calls EXCEPT ![c] = <<>>]
        /\ Begin(c, "select_translation", NoLoc)
    /\ UNCHANGED <<storeVars, queryVars, authVars>>

\* the same update_translation call made once more, right after it returned True
UpdateTranslationAgain(c) ==
    /\ pc[c] = "done" /\ budget[c] # 0
    /\ req[c].op = "update_translation" /\ ret[c].kind = "return"
    /\ LET r == req[c] IN
        /\ Started(c, r)
        /\ calls' = [calls EXCEPT ![c] = <<>>]
        /\ Begin(c, "select_translation", NoLoc)
    /\ UNCHANGED <<storeVars, queryVars, authVars>>

\* bulk_update_translations(updates): success_count = 0, and the loop is entered
BulkUpdateTranslations(c) ==
    /\ CanStart(c)
    /\ \E b \in Batches :
        LET r == [op |-> "bulk_update_translations", updates |-> b] IN
        /\ Started(c, r)
        /\ calls' = [calls EXCEPT ![c] = <<>>]
        /\ IF b = <<>> THEN Finish(c, Return(0))
           ELSE Begin(c, "select_translation", [NoLoc EXCEPT !.i = 1])
    /\ UNCHANGED <<storeVars, queryVars, authVars>>

\* the select of update_translation
SelectExisting(c) ==
    /\ pc[c] = "select_translation"
    /\ SelectStep(c, req[c], loc[c])
    /\ UNCHANGED <<storeVars, queryVars, req, budget, pre, authVars>>

\* variant of WrittenTranslations: a row is inserted whether or not one exists
WrittenTranslations_AlwaysInserts(tr, u, existing) ==
    InsertRow(tr, u.key_id, u.language_code, u.value, u.updated_by)

\* the table translations after the update or insert branch of update_translation
WrittenTranslations(tr, u, existing) ==
    IF existing
    THEN UpdateRows(tr, u.key_id, u.language_code, u.value, u.updated_by)
    ELSE InsertRow(tr, u.key_id, u.language_code, u.value, u.updated_by)

\* whether the store accepts that write
WriteAccepted(tk, tr, u, existing) ==
    existing \/ InsertAllowed(tk, u.key_id)

\* the update or the insert of update_translation, then return True
WriteTranslation(c) ==
    /\ pc[c] = "write_translation"
    /\ LET r == req[c]
           l == loc[c]
           u == CurrentUpdate(r, l) IN
       \/ /\ WriteAccepted(translation_keys, translations, u, l.existing)
          /\ Len(translations[u.key_id, u.language_code]) < MaxRows \/ l.existing
          /\ translations' = WrittenTranslations(translations, u, l.existing)
          /\ Called(c, "ok")
          /\ AfterUpdate(c, r, l, TRUE)
       \/ /\ UNCHANGED translations
          /\ Called(c, "fail")
          /\ AfterUpdate(c, r, l, FALSE)
    /\ UNCHANGED <<translation_keys, project_languages, queryVars, req, budget, pre, authVars>>

\* variant of AlreadyTranslated: a blank translation does not count as one
AlreadyTranslated_NonBlankOnly(translation_key, lang) ==
    HasValidTranslation(translation_key.translations, lang)

\* request.language_code in translation_key.translations
AlreadyTranslated(translation_key, lang) == lang \in DOMAIN translation_key.translations

\* the body of create_translation up to its first repository call:
\* get_translation_key_by_id, 404, 409, else update_translation
CreateTranslationBody(c, r) ==
    LET translation_key == get_translation_key_by_id(r.key_id) IN
    \/ /\ calls' = [calls EXCEPT ![c] = <<"ok">>]
       /\ IF translation_key = None THEN Finish(c, Http(404))
          ELSE IF AlreadyTranslated(translation_key[1], r.language_code)
               THEN Finish(c, Http(409))
          ELSE Begin(c, "select_translation", NoLoc)
    \/ /\ calls' = [calls EXCEPT ![c] = <<"fail">>]
       /\ Finish(c, Http(400))

\* POST /translations by an authenticated caller
CreateTranslation(c) ==
    /\ CanStart(c)
    /\ \E u \in Updates :
        LET r == [op |-> "create_translation", key_id |-> u.key_id,
                  language_code |-> u.language_code, value |-> u.value,
                  updated_by |-> u.updated_by] IN
        /\ Started(c, r)
        /\ CreateTranslationBody(c, r)
    /\ UNCHANGED <<storeVars, queryVars, authVars>>

---------------------------------------------------------------------------
(* delete_translation_key *)

\* the existence check; a missing key or a raised call gives False
DeleteTranslationKey(c) ==
    /\ CanStart(c)
    /\ \E k \in ReqKeyIds :
        /\ Started(c, [op |-> "delete_translation_key", key_id |-> k])
        /\ \/ /\ calls' = [calls EXCEPT ![c] = <<"ok">>]
              /\ IF get_translation_key_by_id(k) = None THEN Finish(c, Return(FALSE))
                 ELSE Begin(c, "delete_translations", NoLoc)
           \/ /\ calls' = [calls EXCEPT ![c] = <<"fail">>]
              /\ Finish(c, Return(FALSE))
    /\ UNCHANGED <<storeVars, queryVars, authVars>>

\* translations.delete().eq("translation_key_id", key_id)
DeleteTranslations(c) ==
    /\ pc[c] = "delete_translations"
    /\ \/ /\ translations' = DeleteRowsOf(translations, req[c].key_id)
          /\ Called(c, "ok")
          /\ Goto(c, "delete_key", loc[c])
       \/ /\ UNCHANGED translations
          /\ Called(c, "fail")
          /\ Finish(c, Return(FALSE))
    /\ UNCHANGED <<translation_keys, project_languages, queryVars, req, budget, pre, authVars>>

\* translation_keys.delete().eq("id", key_id); return len(result.data) > 0
DeleteKey(c) ==
    /\ pc[c] = "delete_key"
    /\ \/ /\ DeleteKeyAllowed(translations, req[c].key_id)
          /\ translation_keys' = DeleteKeyRows(translation_keys, req[c].key_id)
          /\ Called(c, "ok")
          /\ Finish(c, Return(Len(DeletedKeyRows(translation_keys, req[c].key_id)) > 0))
       \/ /\ UNCHANGED translation_keys
          /\ Called(c, "fail")
          /\ Finish(c, Return(FALSE))
    /\ UNCHANGED <<translations, project_languages, queryVars, req, budget, pre, authVars>>

---------------------------------------------------------------------------
(* create_translation_key *)

\* if initial_translations:
TruthyDict(o) == o # None /\ DOMAIN o[1] # {}

\* key_id = str(uuid.uuid4()); translation_keys.insert(key_data)
CreateTranslationKey(c) ==
    /\ CanStart(c)
    /\ \E k \in ReqKeyIds, it \in InitialTranslations :
        LET r == [op |-> "create_translation_key", key_id |-> k, key |-> <<"A", "b">>,
                  category |-> "ui", project_id |-> "p1", initial_translations |-> it] IN
        /\ ~KeyExists(translation_keys, k)
        /\ \A d \in Clients :
              (pc[d] \notin {"idle", "done"} /\ req[d].op = "create_translation_key") => req[d].key_id # k
        /\ Started(c, r)
        /\ \/ /\ translation_keys' = Append(translation_keys,
                    [id |-> k, key |-> r.key, category |-> r.category, project_id |-> r.project_id])
              /\ calls' = [calls EXCEPT ![c] = <<"ok">>]
              /\ Begin(c, IF TruthyDict(it) THEN "insert_translations" ELSE "fetch_key", NoLoc)
           \/ /\ UNCHANGED translation_keys
              /\ calls' = [calls EXCEPT ![c] = <<"fail">>]
              /\ Finish(c, Raise)
    /\ UNCHANGED <<translations, project_languages, queryVars, authVars>>

\* variant of InsertedInitial: entries with an empty value are left out
InsertedInitial_SkipsBlank(tr, key_id, it) ==
    [p \in DOMAIN tr |->
        IF p[1] = key_id /\ p[2] \in DOMAIN it /\ it[p[2]] # <<>>
        THEN Append(tr[p], TranslationRow(it[p[2]], SystemUser)) ELSE tr[p]]

\* translations.insert(translation_data): one row per entry, updated_by "system"
InsertedInitial(tr, key_id, it) ==
    [p \in DOMAIN tr |->
        IF p[1] = key_id /\ p[2] \in DOMAIN it
        THEN Append(tr[p], TranslationRow(it[p[2]], SystemUser)) ELSE tr[p]]

CreateKeyTranslations(c) ==
    /\ pc[c] = "insert_translations"
    /\ \/ /\ InsertAllowed(translation_keys, req[c].key_id)
          /\ translations' = InsertedInitial(translations, req[c].key_id,
                                             req[c].initial_translations[1])
          /\ Called(c, "ok")
          /\ Goto(c, "fetch_key", loc[c])
       \/ /\ UNCHANGED translations
          /\ Called(c, "fail")
          /\ Finish(c, Raise)
    /\ UNCHANGED <<translation_keys, project_languages, queryVars, req, budget, pre, authVars>>

\* return await self.get_translation_key_by_id(key_id)
CreateKeyFetch(c) ==
    /\ pc[c] = "fetch_key"
    /\ \/ /\ Called(c, "ok")
          /\ Finish(c, Return(get_translation_key_by_id(req[c].key_id)))
       \/ /\ Called(c, "fail")
          /\ Finish(c, Raise)
    /\ UNCHANGED <<storeVars, queryVars, req, budget, pre, authVars>>

---------------------------------------------------------------------------
(* get_translation_keys called by a client *)

\* whether the call fetches project_languages (once per row that reaches line 59)
FetchesProjectLanguages(q) ==
    /\ TruthyBool(q.missing_translations) /\ ~Truthy(q.language_code)
    /\ QueryRows(q) # <<>>

ReadTranslationKeys(c) ==
    /\ CanStart(c)
    /\ \E q \in ClientQueries :
        /\ Started(c, [op |-> "get_translation_keys", q |-> q])
        /\ \/ /\ calls' = [calls EXCEPT ![c] =
                    IF FetchesProjectLanguages(q) THEN <<"ok", "ok">> ELSE <<"ok">>]
              /\ Finish(c, Return(get_translation_keys(q).total))
           \/ /\ calls' = [calls EXCEPT ![c] = <<"fail">>]
              /\ Finish(c, Raise)
           \/ /\ FetchesProjectLanguages(q)
              /\ calls' = [calls EXCEPT ![c] = <<"ok", "fail">>]
              /\ Finish(c, Raise)
    /\ UNCHANGED <<storeVars, queryVars, authVars>>

---------------------------------------------------------------------------
(* The authentication endpoints and the protected endpoints behind require_auth *)

\* a token signed for the default admin outside a login, with the service's key or another
MintedTokens ==
    {JwtEncode([sub |-> "u1", username |-> "admin",
                exp |-> clock + JWT_EXPIRATION_HOURS, iat |-> clock], secret) :
        secret \in {JWT_SECRET, OtherSecret}}

\* the Authorization headers a caller may send: none, one word, or a scheme and a token
Headers ==
    {None, Some(<<"Bearer">>)}
        \cup {Some(<<scheme, token>>) : scheme \in Schemes, token \in issued \cup MintedTokens}

LoginRequests ==
    [username : {"admin", "demo"}, password : {"admin123", "demo123"}]

RegisterRequests ==
    [username : {"admin", "eve"}, email : {"eve@example.com"}, password : {"eve123"}]

\* what the protected endpoints are asked to write
AuthUpdates == [key_id : {"k1"}, language_code : {"en"}, value : ReqValues]

AuthBatches == {b \in SeqsUpTo(AuthUpdates, MaxBatch) : Len(b) <= 1}

\* current_user.username
UsernameOf(current_user) == IF current_user = None THEN "" ELSE current_user[1].username

\* require_auth raises 401: the handler body does not run
Unauthorized(c) ==
    /\ calls' = [calls EXCEPT ![c] = <<>>]
    /\ Finish(c, Http(401))

\* datetime.utcnow() advances
Tick ==
    /\ clock + TickHours <= MaxClock
    /\ clock' = clock + TickHours
    /\ UNCHANGED <<storeVars, queryVars, clientVars, USERS_DB, ACTIVE_TOKENS, issued>>

\* POST /auth/register
Register(c) ==
    /\ CanStart(c)
    /\ \E d \in RegisterRequests :
        /\ Started(c, [op |-> "register", username |-> d.username])
        /\ calls' = [calls EXCEPT ![c] = <<>>]
        /\ IF \E id \in DOMAIN USERS_DB :
                \/ USERS_DB[id].user.username = d.username
                \/ USERS_DB[id].user.email = d.email
           THEN Finish(c, Http(400)) /\ UNCHANGED USERS_DB
           ELSE \E user_id \in UserIdPool \ DOMAIN USERS_DB :
                  /\ USERS_DB' =
                       [id \in DOMAIN USERS_DB \cup {user_id} |->
                          IF id = user_id
                          THEN [user |-> User(user_id, d.username, d.email),
                                password_hash |-> hash_password(d.password)]
                          ELSE USERS_DB[id]]
                  /\ Finish(c, Http(200))
    /\ UNCHANGED <<storeVars, queryVars, ACTIVE_TOKENS, issued, clock>>

\* POST /auth/login
Login(c) ==
    /\ CanStart(c)
    /\ \E d \in LoginRequests :
        LET ids == Authenticated(d) IN
        /\ Started(c, [op |-> "login", username |-> d.username])
        /\ calls' = [calls EXCEPT ![c] = <<>>]
        /\ IF ids = {}
           THEN Finish(c, Http(401)) /\ UNCHANGED <<ACTIVE_TOKENS, issued>>
           ELSE LET user == USERS_DB[CHOOSE id \in ids : TRUE].user
                    token == AccessToken(user) IN
                /\ token \in issued \/ Cardinality(issued) < MaxTokens
                /\ ACTIVE_TOKENS' = ACTIVE_TOKENS \cup {token}
                /\ issued' = issued \cup {token}
                /\ Finish(c, Http(200))
    /\ UNCHANGED <<storeVars, queryVars, USERS_DB, clock>>

\* POST /auth/logout
Logout(c) ==
    /\ CanStart(c)
    /\ \E h \in Headers :
        /\ Started(c, [op |-> "logout", authorization |-> h])
        /\ IF get_current_user(h) = None
           THEN Unauthorized(c) /\ UNCHANGED ACTIVE_TOKENS
           ELSE /\ ACTIVE_TOKENS' = ACTIVE_TOKENS \ {h[1][2]}
                /\ calls' = [calls EXCEPT ![c] = <<>>]
                /\ Finish(c, Http(200))
    /\ UNCHANGED <<storeVars, queryVars, USERS_DB, issued, clock>>

\* PUT /translations/{key_id}/{language_code}
PutTranslation(c) ==
    /\ CanStart(c)
    /\ \E h \in Headers, u \in AuthUpdates :
        LET current_user == get_current_user(h)
            r == [op |-> "put_translation", authorization |-> h, key_id |-> u.key_id,
                  language_code |-> u.language_code, value |-> u.value,
                  updated_by |-> UsernameOf(current_user)] IN
        /\ Started(c, r)
        /\ IF current_user = None THEN Unauthorized(c)
           ELSE /\ calls' = [calls EXCEPT ![c] = <<>>]
                /\ Begin(c, "select_translation", NoLoc)
    /\ UNCHANGED <<storeVars, queryVars, authVars>>

\* POST /translations
PostTranslation(c) ==
    /\ CanStart(c)
    /\ \E h \in Headers, u \in AuthUpdates :
        LET current_user == get_current_user(h)
            r == [op |-> "create_translation", authorization |-> h, key_id |-> u.key_id,
                  language_code |-> u.language_code, value |-> u.value,
                  updated_by |-> UsernameOf(current_user)] IN
        /\ Started(c, r)
        /\ IF current_user = None THEN Unauthorized(c)
           ELSE CreateTranslationBody(c, r)
    /\ UNCHANGED <<storeVars, queryVars, authVars>>

\* POST /translations/bulk-update; the response carries the service's count
PostBulkUpdate(c) ==
    /\ CanStart(c)
    /\ \E h \in Headers, b \in AuthBatches :
        LET current_user == get_current_user(h)
            updates == [i \in 1..Len(b) |->
                          [key_id |-> b[i].key_id, language_code |-> b[i].language_code,
                           value |-> b[i].value, updated_by |-> UsernameOf(current_user)]]
            r == [op |-> "bulk_update_translations", authorization |-> h,
                  updates |-> updates] IN
        /\ Started(c, r)
        /\ IF current_user = None THEN Unauthorized(c)
           ELSE /\ calls' = [calls EXCEPT ![c] = <<>>]
                /\ IF b = <<>> THEN Finish(c, Return(0))
                   ELSE Begin(c, "select_translation", [NoLoc EXCEPT !.i = 1])
    /\ UNCHANGED <<storeVars, queryVars, authVars>>

---------------------------------------------------------------------------
(* Specifications of the service under one client and under two *)

InitClients(b) ==
    /\ pc = [c \in Clients |-> "idle"]
    /\ req = [c \in Clients |-> NoReq]
    /\ loc = [c \in Clients |-> NoLoc]
    /\ ret = [c \in Clients |-> NoRet]
    /\ budget = b
    /\ pre = [c \in Clients |-> NoPre]
    /\ calls = [c \in Clients |-> <<>>]
    /\ AuthInit

EmptyStore ==
    /\ translation_keys = <<>>
    /\ translations = [p \in KeyIds \X Langs |-> NoRow]
    /\ project_languages = LanguageRows("p1", <<"en", "fr">>) \o LanguageRows("p2", <<"en">>)

Init ==
    /\ EmptyStore
    /\ query = None
    /\ resp = [status |-> 0]
    /\ InitClients([c \in Clients |-> IF c = "c1" THEN -1 ELSE 0])

Next ==
    \E c \in Clients :
        \/ UpdateTranslation(c)
        \/ UpdateTranslationAgain(c)
        \/ TakeResult(c)
        \/ BulkUpdateTranslations(c)
        \/ SelectExisting(c)
        \/ WriteTranslation(c)
        \/ CreateTranslation(c)
        \/ DeleteTranslationKey(c)
        \/ DeleteTranslations(c)
        \/ DeleteKey(c)
        \/ CreateTranslationKey(c)
        \/ CreateKeyTranslations(c)
        \/ CreateKeyFetch(c)
        \/ ReadTranslationKeys(c)

Spec == Init /\ [][Next]_vars

\* two clients, one request each, on a store that holds no key or the key k1
SeedStore ==
    /\ \E present \in BOOLEAN, en \in {None, Some(<<"H", "i">>)}, fr \in {None, Some(<<>>)} :
        /\ translation_keys =
             IF present
             THEN <<[id |-> "k1", key |-> <<"A", "b">>, category |-> "ui", project_id |-> "p1"]>>
             ELSE <<>>
        /\ translations =
             [p \in KeyIds \X Langs |->
                IF present /\ p = <<"k1", "en">> /\ en # None
                THEN <<TranslationRow(en[1], SystemUser)>>
                ELSE IF present /\ p = <<"k1", "fr">> /\ fr # None
                THEN <<TranslationRow(fr[1], SystemUser)>>
                ELSE NoRow]
    /\ project_languages = LanguageRows("p1", <<"en", "fr">>) \o LanguageRows("p2", <<"en">>)

InitConc ==
    /\ SeedStore
    /\ query = None
    /\ resp = [status |-> 0]
    /\ InitClients([c \in Clients |-> 1])

NextConc ==
    \E c \in Clients :
        \/ UpdateTranslation(c)
        \/ BulkUpdateTranslations(c)
        \/ SelectExisting(c)
        \/ WriteTranslation(c)
        \/ CreateTranslation(c)
        \/ DeleteTranslationKey(c)
        \/ DeleteTranslations(c)
        \/ DeleteKey(c)
        \/ CreateTranslationKey(c)
        \/ CreateKeyTranslations(c)
        \/ CreateKeyFetch(c)
        \/ ReadTranslationKeys(c)

SpecConc == InitConc /\ [][NextConc]_vars

\* one caller of the authentication and the protected endpoints, on a store that
\* holds the key k1 without translations
InitAuth ==
    /\ translation_keys =
         <<[id |-> "k1", key |-> <<"A", "b">>, category |-> "ui", project_id |-> "p1"]>>
    /\ translations = [p \in KeyIds \X Langs |-> NoRow]
    /\ project_languages = LanguageRows("p1", <<"en", "fr">>) \o LanguageRows("p2", <<"en">>)
    /\ query = None
    /\ resp = [status |-> 0]
    /\ InitClients([c \in Clients |-> IF c = "c1" THEN -1 ELSE 0])

NextAuth ==
    \/ Tick
    \/ \E c \in Clients :
        \/ Register(c)
        \/ Login(c)
        \/ Logout(c)
        \/ PutTranslation(c)
        \/ PostTranslation(c)
        \/ PostBulkUpdate(c)
        \/ SelectExisting(c)
        \/ WriteTranslation(c)
        \/ TakeResult(c)

SpecAuth == InitAuth /\ [][NextAuth]_vars

---------------------------------------------------------------------------
(* Properties of get_translation_keys, stated on the store itself *)

Answered == query # None /\ resp.status = 200
Q == query[1]

Range(f) == {f[i] : i \in DOMAIN f}

Blank(v) == \A i \in 1..Len(v) : v[i] \in {" ", "\t", "\n"}

\* the (key, language) pair has a translation row with a non-blank value
Completed(key_id, lang) ==
    /\ <<key_id, lang>> \in DOMAIN translations
    /\ translations[key_id, lang] # <<>>
    /\ \A i \in 1..Len(translations[key_id, lang]) :
          ~Blank(translations[key_id, lang][i].value)

ProjectLanguageSet(project_id) ==
    {r.language_code : r \in {x \in Range(project_languages) : x.project_id = project_id}}

PassesSearch(row, q) ==
    TruthyText(q.search) => ILike(row.key, <<"%">> \o q.search[1] \o <<"%">>)

PassesCategory(row, q) == Truthy(q.category) => row.category = q.category[1]

PassesMissing(row, q) ==
    TruthyBool(q.missing_translations) =>
        IF Truthy(q.language_code)
        THEN ~Completed(row.id, q.language_code[1])
        ELSE \E l \in ProjectLanguageSet(q.project_id) : ~Completed(row.id, l)

ProjectRows(q) == {i \in 1..Len(translation_keys) : translation_keys[i].project_id = q.project_id}

PassingRows(q) ==
    {i \in ProjectRows(q) :
        /\ PassesSearch(translation_keys[i], q)
        /\ PassesCategory(translation_keys[i], q)
        /\ PassesMissing(translation_keys[i], q)}

ReturnedIds == {resp.keys[i].id : i \in 1..Len(resp.keys)}

\* the page holds every key that passed the filters
WholeResultOnPage == Q.page = 1 /\ resp.total <= Q.limit

\* C1: the total of a response is the number of the project's keys that pass the
\* search, category and missing-translations filters, whatever the page and the
\* limit, and it is below the project's key count as soon as a filter excludes a key.
C1_TotalCountsFilteredKeys ==
    Answered =>
        /\ resp.total = Cardinality(PassingRows(Q))
        /\ (PassingRows(Q) # ProjectRows(Q) => resp.total < Cardinality(ProjectRows(Q)))

\* a response whose missing-translations filter excluded a key, on a page smaller
\* than the total
C1_Witness ==
    /\ Answered
    /\ TruthyBool(Q.missing_translations)
    /\ \E i \in ProjectRows(Q) :
          /\ PassesSearch(translation_keys[i], Q) /\ PassesCategory(translation_keys[i], Q)
          /\ ~PassesMissing(translation_keys[i], Q)
    /\ resp.total = 2
    /\ Len(resp.keys) = 1

\* C2: with missing_translations true and no language_code, a key (that passes the
\* other filters) is kept exactly when some language of the project's configured
\* set has no translation row on it or one with a blank value; translations for
\* languages outside that set play no part.
C2_MissingAnyProjectLanguage ==
    (Answered /\ TruthyBool(Q.missing_translations) /\ ~Truthy(Q.language_code)) =>
        /\ \A i \in 1..Len(resp.keys) :
              \E l \in ProjectLanguageSet(Q.project_id) : ~Completed(resp.keys[i].id, l)
        /\ WholeResultOnPage =>
              \A i \in ProjectRows(Q) :
                  (PassesSearch(translation_keys[i], Q) /\ PassesCategory(translation_keys[i], Q)) =>
                      (translation_keys[i].id \in ReturnedIds
                          <=> \E l \in ProjectLanguageSet(Q.project_id) :
                                  ~Completed(translation_keys[i].id, l))

\* a key complete in every project language, with a blank translation for a
\* language outside the project's set, is excluded
C2_Witness ==
    /\ Answered /\ Q.missing_translations = Some(TRUE) /\ Q.language_code = None
    /\ Q.search = None /\ Q.category = None /\ Q.project_id = "p1"
    /\ ProjectLanguageSet("p1") = {"en"}
    /\ Len(translation_keys) = 1 /\ translation_keys[1].project_id = "p1"
    /\ Completed("k1", "en")
    /\ translations["k1", "fr"] # <<>> /\ ~Completed("k1", "fr")
    /\ resp.total = 0 /\ resp.keys = <<>>

\* C3: with missing_translations true and a (non-empty) language_code L, a key
\* (that passes the other filters) is kept exactly when it has no translation row
\* for L or one with a blank value, whatever the project's language set and the
\* key's other translations.
C3_MissingGivenLanguage ==
    (Answered /\ TruthyBool(Q.missing_translations) /\ Truthy(Q.language_code)) =>
        /\ \A i \in 1..Len(resp.keys) : ~Completed(resp.keys[i].id, Q.language_code[1])
        /\ WholeResultOnPage =>
              \A i \in ProjectRows(Q) :
                  (PassesSearch(translation_keys[i], Q) /\ PassesCategory(translation_keys[i], Q)) =>
                      (translation_keys[i].id \in ReturnedIds
                          <=> ~Completed(translation_keys[i].id, Q.language_code[1]))

\* a key whose translation for L is whitespace only is kept, although the project
\* does not list L and the key is complete in the project's languages
C3_Witness ==
    /\ Answered /\ Q.missing_translations = Some(TRUE) /\ Q.language_code = Some("fr")
    /\ ProjectLanguageSet(Q.project_id) = {"en"}
    /\ Len(translation_keys) = 1
    /\ Completed("k1", "en")
    /\ translations["k1", "fr"] # <<>> /\ translations["k1", "fr"][1].value = <<" ">>
    /\ ReturnedIds = {"k1"}

\* the rows of the store, in its order, that passed every filter
RECURSIVE PassingSeq(_, _)
PassingSeq(i, q) ==
    IF i > Len(translation_keys) THEN <<>>
    ELSE (IF i \in PassingRows(q) THEN <<translation_keys[i].id>> ELSE <<>>)
         \o PassingSeq(i + 1, q)

\* C4: the page is the run of the filtered keys at positions
\* [(page-1)*limit, (page-1)*limit+limit), in the order of the store; it is empty
\* when (page-1)*limit is at or past the number of filtered keys.
C4_PageIsContiguousSlice ==
    Answered =>
        LET filtered == PassingSeq(1, Q)
            offset == (Q.page - 1) * Q.limit
            n == IF offset >= Len(filtered) THEN 0 ELSE Min(Q.limit, Len(filtered) - offset)
        IN  /\ Len(resp.keys) = n
            /\ \A j \in 1..n : resp.keys[j].id = filtered[offset + j]

\* the second page of three filtered keys at two per page holds the third key
C4_Witness ==
    /\ Answered /\ Q.page = 2 /\ Q.limit = 2
    /\ Len(PassingSeq(1, Q)) = 3
    /\ Len(resp.keys) = 1 /\ resp.keys[1].id = PassingSeq(1, Q)[3]

\* a page past the last filtered key is empty
C4_WitnessPastEnd ==
    /\ Answered /\ Q.page = 2 /\ Q.limit = 2
    /\ Len(PassingSeq(1, Q)) = 2
    /\ resp.keys = <<>> /\ resp.total = 2

---------------------------------------------------------------------------
(* Properties of the mutation operations *)

Done(c, op) == pc[c] = "done" /\ req[c].op = op

Failed(c) == \E i \in 1..Len(calls[c]) : calls[c][i] = "fail"

Pairs == KeyIds \X Langs

RECURSIVE RowCount(_, _)
RowCount(tr, S) ==
    IF S = {} THEN 0
    ELSE LET p == CHOOSE x \in S : TRUE IN Len(tr[p]) + RowCount(tr, S \ {p})

\* C5: while update_translation calls for one (key_id, language_code) run
\* concurrently, split at their repository calls, the store holds at most one
\* translation row for that pair.
C5_OneRowPerPairUnderConcurrency ==
    \A c, d \in Clients :
        (/\ c # d
         /\ req[c].op = "update_translation" /\ req[d].op = "update_translation"
         /\ req[c].key_id = req[d].key_id /\ req[c].language_code = req[d].language_code)
        => Len(translations[req[c].key_id, req[c].language_code]) <= 1

\* C6: when update_translation is called twice in a row with the same arguments and
\* both calls return True, the pair holds exactly one row, with that value; the
\* second call found the row of the first and added none.
C6_UpsertTwiceLeavesOneRow ==
    \A c \in Clients :
        (Done(c, "update_translation") /\ pre[c].again /\ ret[c].kind = "return") =>
            LET p == <<req[c].key_id, req[c].language_code>> IN
            /\ Len(translations[p]) = 1
            /\ translations[p][1].value = req[c].value
            /\ translations[p][1].updated_by = req[c].updated_by
            /\ Len(pre[c].rows[p]) = 1
            /\ RowCount(translations, Pairs) = RowCount(pre[c].rows, Pairs)

\* the second of two equal calls has returned, and the value is not blank
C6_Witness ==
    \E c \in Clients :
        /\ Done(c, "update_translation") /\ pre[c].again /\ ret[c].kind = "return"
        /\ req[c].value = <<"H", "i">>
        /\ calls[c] = <<"ok", "ok">>

\* the outcome of each update_translation call of a bulk update, from the outcomes
\* of its repository calls (a select, then a write unless the select raised)
RECURSIVE EntryOutcomes(_)
EntryOutcomes(cs) ==
    IF cs = <<>> THEN <<>>
    ELSE IF Head(cs) = "fail" THEN <<FALSE>> \o EntryOutcomes(Tail(cs))
    ELSE IF Len(cs) = 1 THEN <<>>
    ELSE <<cs[2] = "ok">> \o EntryOutcomes(Tail(Tail(cs)))

CountTrue(bs) == Cardinality({i \in 1..Len(bs) : bs[i]})

\* the table translations after the entries that succeeded, applied in order
RECURSIVE AfterEntries(_, _, _)
AfterEntries(tr, updates, outcomes) ==
    IF updates = <<>> THEN tr
    ELSE LET u == Head(updates)
             next == IF Head(outcomes)
                     THEN [tr EXCEPT ![u.key_id, u.language_code] =
                              <<TranslationRow(u.value, u.updated_by)>>]
                     ELSE tr
         IN  AfterEntries(next, Tail(updates), Tail(outcomes))

\* C7: bulk_update_translations returns (never raises); every entry is attempted,
\* the count returned is the number of entries whose update_translation did not
\* raise, and the store is the one it started from with exactly those entries
\* applied: an entry that raised changed nothing.
C7_BulkCountsAndContinues ==
    \A c \in Clients :
        Done(c, "bulk_update_translations") =>
            LET outcomes == EntryOutcomes(calls[c]) IN
            /\ ret[c].kind = "return"
            /\ Len(outcomes) = Len(req[c].updates)
            /\ ret[c].value = CountTrue(outcomes)
            /\ translations = AfterEntries(pre[c].rows, req[c].updates, outcomes)
            /\ translation_keys = pre[c].keys

\* a batch whose first entry names a key that does not exist and whose second
\* entry is applied
C7_Witness ==
    \E c \in Clients :
        /\ Done(c, "bulk_update_translations")
        /\ Len(req[c].updates) = 2
        /\ ~KeyExists(pre[c].keys, req[c].updates[1].key_id)
        /\ calls[c] = <<"ok", "fail", "ok", "ok">>
        /\ ret[c] = Return(1)
        /\ translations # pre[c].rows

\* C8: delete_translation_key returns (never raises). When it returns True the key
\* row it found is gone and so is every translation row of the key, the rest of
\* the store being untouched; it returns True exactly when it removed the key row,
\* which it does whenever the key exists and no repository call fails. For a key
\* id with no key row it returns False and leaves the store as it was.
C8_DeleteCascades ==
    \A c \in Clients :
        Done(c, "delete_translation_key") =>
            LET k == req[c].key_id
                existed == KeyExists(pre[c].keys, k) IN
            /\ ret[c].kind = "return"
            /\ ret[c].value <=> (existed /\ ~KeyExists(translation_keys, k))
            /\ ret[c].value =>
                /\ \A l \in Langs : translations[k, l] = <<>>
                /\ \A p \in Pairs : p[1] # k => translations[p] = pre[c].rows[p]
                /\ translation_keys = SelectSeq(pre[c].keys, LAMBDA r : r.id # k)
            /\ (existed /\ ~Failed(c)) => ret[c].value
            /\ ~existed => (translations = pre[c].rows /\ translation_keys = pre[c].keys)

\* a key with a translation row in each language is deleted while another key
\* keeps its row
C8_Witness ==
    \E c \in Clients :
        /\ Done(c, "delete_translation_key")
        /\ ret[c] = Return(TRUE)
        /\ \A l \in Langs : pre[c].rows[req[c].key_id, l] # <<>>
        /\ \E p \in Pairs : p[1] # req[c].key_id /\ translations[p] # <<>>

\* a key id with no key row: False, nothing raised, nothing changed
C8_WitnessMissingKey ==
    \E c \in Clients :
        /\ Done(c, "delete_translation_key")
        /\ pre[c].keys # <<>> /\ ~KeyExists(pre[c].keys, req[c].key_id)
        /\ calls[c] = <<"ok">>
        /\ ret[c] = Return(FALSE)

\* C9: POST /translations answers 404 exactly when its lookup finds no key and 409
\* exactly when the key it finds has a translation row for the language, blank or
\* not; in both cases it makes no further repository call and the store is as it
\* was. It calls update_translation only for an existing key with no row for the
\* language, and answers 200 with the row inserted when no call fails.
C9_CreateTranslationChecksFirst ==
    \A c \in Clients :
        Done(c, "create_translation") =>
            LET k == req[c].key_id
                p == <<req[c].key_id, req[c].language_code>>
                existed == KeyExists(pre[c].keys, k)
                looked == calls[c][1] = "ok" IN
            /\ ret[c].kind = "http"
            /\ ret[c].status = 404 <=> (looked /\ ~existed)
            /\ ret[c].status = 409 <=> (looked /\ existed /\ pre[c].rows[p] # <<>>)
            /\ ret[c].status \in {404, 409} =>
                /\ Len(calls[c]) = 1
                /\ translations = pre[c].rows /\ translation_keys = pre[c].keys
            /\ Len(calls[c]) > 1 => (existed /\ pre[c].rows[p] = <<>>)
            /\ (looked /\ existed /\ pre[c].rows[p] = <<>> /\ ~Failed(c)) =>
                /\ ret[c].status = 200
                /\ translations = [pre[c].rows EXCEPT ![p] =
                                      <<TranslationRow(req[c].value, req[c].updated_by)>>]

\* 409 for a key whose translation for the language is blank
C9_Witness ==
    \E c \in Clients :
        /\ Done(c, "create_translation")
        /\ ret[c] = Http(409)
        /\ pre[c].rows[req[c].key_id, req[c].language_code][1].value = <<>>
        /\ req[c].value = <<"H", "i">>

\* 404 for a key that does not exist
C9_Witness404 ==
    \E c \in Clients : Done(c, "create_translation") /\ ret[c] = Http(404)

\* C10: no repository call is made again after it failed, and a request during
\* which a repository call failed ends with an exception for get_translation_keys,
\* create_translation_key, update_translation and delete_translation_key, while
\* bulk_update_translations counts the entry as failed and goes on.
C10_FailuresReachTheCaller ==
    \A c \in Clients :
        /\ (pc[c] = "done" /\ Failed(c)
            /\ req[c].op \in {"get_translation_keys", "create_translation_key",
                              "update_translation", "delete_translation_key"})
           => (ret[c].kind = "raise" /\ calls[c][Len(calls[c])] = "fail"
               /\ \A i \in 1..(Len(calls[c]) - 1) : calls[c][i] = "ok")
        /\ Done(c, "bulk_update_translations")
           => (ret[c].kind = "return"
               /\ ret[c].value = CountTrue(EntryOutcomes(calls[c]))
               /\ Len(EntryOutcomes(calls[c])) = Len(req[c].updates))

\* the language codes of an Optional dict of initial translations
GivenLanguages(it) == IF it = None THEN {} ELSE DOMAIN it[1]

\* C11: create_translation_key inserts the key row before any translation row, and
\* when every repository call succeeds it returns the key under an id no key had
\* before, with the name and category given, whose translations mapping has exactly
\* the language codes of initial_translations, each with the value given and
\* updated_by "system" (no language when none was given); the store holds the new
\* key row and one translation row per entry, and nothing else changed.
C11_CreateKeyReturnsHydratedKey ==
    \A c \in Clients :
        /\ pc[c] \in {"insert_translations", "fetch_key"} =>
              /\ KeyExists(translation_keys, req[c].key_id)
              /\ ~KeyExists(pre[c].keys, req[c].key_id)
        /\ pc[c] = "insert_translations" =>
              \A l \in Langs : translations[req[c].key_id, l] = <<>>
        /\ (Done(c, "create_translation_key") /\ ~Failed(c)) =>
              LET r == req[c]
                  given == GivenLanguages(r.initial_translations) IN
              /\ ret[c].kind = "return"
              /\ ret[c].value # None
              /\ LET k == ret[c].value[1] IN
                  /\ k.id = r.key_id /\ k.key = r.key /\ k.category = r.category
                  /\ ~KeyExists(pre[c].keys, k.id)
                  /\ DOMAIN k.translations = given
                  /\ \A l \in given :
                        k.translations[l] = TranslationRow(r.initial_translations[1][l], SystemUser)
              /\ translation_keys = Append(pre[c].keys,
                    [id |-> r.key_id, key |-> r.key, category |-> r.category,
                     project_id |-> r.project_id])
              /\ \A p \in Pairs :
                    translations[p] =
                        IF p[1] = r.key_id /\ p[2] \in given
                        THEN <<TranslationRow(r.initial_translations[1][p[2]], SystemUser)>>
                        ELSE pre[c].rows[p]
              /\ calls[c] = IF given = {} THEN <<"ok", "ok">> ELSE <<"ok", "ok", "ok">>

\* a key is created beside an existing one, with a value in one language and a
\* blank value in the other
C11_Witness ==
    \E c \in Clients :
        /\ Done(c, "create_translation_key") /\ ~Failed(c)
        /\ pre[c].keys # <<>>
        /\ GivenLanguages(req[c].initial_translations) = Langs
        /\ ret[c].value[1].translations["fr"].value = <<>>

\* a key is created with no initial translations
C11_WitnessNoTranslations ==
    \E c \in Clients :
        /\ Done(c, "create_translation_key") /\ ~Failed(c)
        /\ req[c].initial_translations = None
        /\ DOMAIN ret[c].value[1].translations = {}

\* whether entries i and j of a batch name the same (key_id, language_code)
SamePair(updates, i, j) ==
    /\ updates[i].key_id = updates[j].key_id
    /\ updates[i].language_code = updates[j].language_code

\* C12: bulk_update_translations works on entry i only after entries 1..i-1 are
\* finished, and when two entries of the batch name the same pair and both
\* succeed, then after the call the pair holds one row, with the value of the
\* later entry (no entry after it having succeeded on that pair).
C12_BulkAppliesInSubmissionOrder ==
    \A c \in Clients :
        /\ (req[c].op = "bulk_update_translations"
            /\ pc[c] \in {"select_translation", "write_translation"}) =>
              /\ loc[c].i \in 1..Len(req[c].updates)
              /\ Len(EntryOutcomes(calls[c])) = loc[c].i - 1
        /\ Done(c, "bulk_update_translations") =>
              LET u == req[c].updates
                  outcomes == EntryOutcomes(calls[c]) IN
              \A i, j \in 1..Len(u) :
                  (/\ i < j /\ SamePair(u, i, j)
                   /\ outcomes[i] /\ outcomes[j]
                   /\ \A m \in (j + 1)..Len(u) : ~(SamePair(u, j, m) /\ outcomes[m]))
                  => /\ Len(translations[u[j].key_id, u[j].language_code]) = 1
                     /\ translations[u[j].key_id, u[j].language_code][1].value = u[j].value

\* two entries for one pair with different values, the first inserted and the
\* second written over it
C12_Witness ==
    \E c \in Clients :
        /\ Done(c, "bulk_update_translations")
        /\ Len(req[c].updates) = 2
        /\ SamePair(req[c].updates, 1, 2)
        /\ req[c].updates[1].value = <<"H", "i">> /\ req[c].updates[2].value = <<>>
        /\ pre[c].rows[req[c].updates[1].key_id, req[c].updates[1].language_code] = <<>>
        /\ calls[c] = <<"ok", "ok", "ok", "ok">>
        /\ ret[c] = Return(2)

---------------------------------------------------------------------------
(* Properties of the protected endpoints *)

Protected(c) == "authorization" \in DOMAIN req[c]

\* the bearer token of the request's Authorization header was in the active-token
\* set when the request arrived and names a registered user
TokenAccepted(c) ==
    LET h == req[c].authorization IN
    /\ h # None
    /\ Len(h[1]) = 2
    /\ h[1][2] \in pre[c].tokens
    /\ h[1][2] \in issued
    /\ h[1][2].sub \in DOMAIN USERS_DB

TokenUser(c) == USERS_DB[req[c].authorization[1][2].sub].user

\* the update_translation arguments a protected request hands to the service
RequestedUpdates(r) ==
    IF r.op = "bulk_update_translations" THEN r.updates
    ELSE IF r.op = "logout" THEN <<>>
    ELSE <<[key_id |-> r.key_id, language_code |-> r.language_code,
            value |-> r.value, updated_by |-> r.updated_by]>>

\* C13: a request to PUT /translations/{key_id}/{language_code}, POST /translations,
\* POST /translations/bulk-update or POST /auth/logout whose bearer token is not in
\* the active-token set, or names no registered user, is answered 401 without a
\* repository call and leaves the translation store and the token set as they
\* were; a request that is let in hands the token user's username to the service
\* as updated_by, and the row it writes carries that username.
C13_ProtectedEndpointsRequireActiveToken ==
    \A c \in Clients :
        Protected(c) =>
            /\ ~TokenAccepted(c) =>
                  /\ pc[c] = "done" /\ ret[c] = Http(401)
                  /\ calls[c] = <<>>
                  /\ translations = pre[c].rows /\ translation_keys = pre[c].keys
                  /\ ACTIVE_TOKENS = pre[c].tokens
            /\ (pc[c] = "done" /\ ret[c] = Http(401)) =>
                  /\ calls[c] = <<>>
                  /\ translations = pre[c].rows /\ translation_keys = pre[c].keys
            /\ ~(pc[c] = "done" /\ ret[c] = Http(401)) =>
                  /\ TokenAccepted(c)
                  /\ \A i \in 1..Len(RequestedUpdates(req[c])) :
                        RequestedUpdates(req[c])[i].updated_by = TokenUser(c).username
                  /\ (pc[c] = "done" /\ ret[c] \in {Http(200), Return(1)}
                      /\ req[c].op # "logout") =>
                        LET u == RequestedUpdates(req[c])[1] IN
                        translations[u.key_id, u.language_code] =
                            <<TranslationRow(u.value, TokenUser(c).username)>>

\* the user demo writes a translation with the token of its login, sent under the
\* scheme "bearer"
C13_Witness ==
    \E c \in Clients :
        /\ Done(c, "put_translation") /\ ret[c] = Http(200)
        /\ req[c].authorization[1][1] = "bearer"
        /\ translations["k1", "en"] = <<TranslationRow(<<"H", "i">>, "demo")>>
        /\ pre[c].rows["k1", "en"] # <<>>

\* a token that a login issued and a logout removed is refused
C13_WitnessLoggedOut ==
    \E c \in Clients :
        /\ Done(c, "create_translation") /\ ret[c] = Http(401)
        /\ req[c].authorization # None /\ Len(req[c].authorization[1]) = 2
        /\ req[c].authorization[1][1] = "Bearer"
        /\ req[c].authorization[1][2] \in issued \ pre[c].tokens
        /\ req[c].authorization[1][2].exp > clock

\* a token signed with the service's key that no login issued is refused
C13_WitnessNeverIssued ==
    \E c \in Clients :
        /\ Done(c, "bulk_update_translations") /\ ret[c] = Http(401)
        /\ req[c].authorization # None /\ Len(req[c].authorization[1]) = 2
        /\ req[c].authorization[1][1] = "Bearer"
        /\ req[c].authorization[1][2].sig = JWT_SECRET
        /\ req[c].authorization[1][2] \notin issued
        /\ Len(req[c].updates) = 1

---------------------------------------------------------------------------
(* Properties of the search and category filters *)

\* s occurs in t as a substring, letter case aside
ContainsIgnoringCase(t, s) ==
    \E i \in 0..(Len(t) - Len(s)) : SubSeq(Lower(t), i + 1, i + Len(s)) = Lower(s)

\* the keys of the project that contain the search text and are of the category,
\* an absent (or empty) filter excluding nothing
SubstringMatches(q) ==
    {translation_keys[i].id : i \in
        {j \in 1..Len(translation_keys) :
            /\ translation_keys[j].project_id = q.project_id
            /\ TruthyText(q.search) => ContainsIgnoringCase(translation_keys[j].key, q.search[1])
            /\ Truthy(q.category) => translation_keys[j].category = q.category[1]}}

\* C14: without the missing-translations filter, get_translation_keys counts, and
\* returns when they fit on the page, exactly the keys of the project whose key
\* text contains the search text as a case-insensitive substring and whose
\* category equals the one given.
C14_SearchIsSubstringCategoryIsExact ==
    (Answered /\ ~TruthyBool(Q.missing_translations)) =>
        /\ resp.total = Cardinality(SubstringMatches(Q))
        /\ WholeResultOnPage => ReturnedIds = SubstringMatches(Q)

---------------------------------------------------------------------------
(* Properties of concurrent requests *)

\* C15: of two POST /translations requests for one (key_id, language_code) that
\* found the key without a translation for the language, at most one answers 200,
\* and the pair then holds the value of the request that answered 200.
C15_CreateOnlyUnderConcurrency ==
    \A c, d \in Clients :
        (/\ c # d
         /\ Done(c, "create_translation") /\ Done(d, "create_translation")
         /\ req[c].key_id = req[d].key_id /\ req[c].language_code = req[d].language_code
         /\ pre[c].rows[req[c].key_id, req[c].language_code] = <<>>
         /\ pre[d].rows[req[d].key_id, req[d].language_code] = <<>>)
        => /\ ~(ret[c] = Http(200) /\ ret[d] = Http(200))
           /\ ret[c] = Http(200) =>
                \A i \in 1..Len(translations[req[c].key_id, req[c].language_code]) :
                    translations[req[c].key_id, req[c].language_code][i].value = req[c].value

\* C16: with delete_translation_key(k) and an update_translation on k running
\* together, once the delete has returned no translation row of k exists without
\* the key row k, and when the delete returned False every language of k that had
\* a translation row when the delete began still has one.
C16_DeleteLeavesNoOrphanAndFalseRemovesNothing ==
    \A c, d \in Clients :
        (/\ c # d
         /\ Done(c, "delete_translation_key")
         /\ req[d].op = "update_translation" /\ req[d].key_id = req[c].key_id)
        => LET k == req[c].key_id IN
           /\ \A l \in Langs : translations[k, l] # <<>> => KeyExists(translation_keys, k)
           /\ ret[c] = Return(FALSE) =>
                \A l \in Langs : pre[c].rows[k, l] # <<>> => translations[k, l] # <<>>

=============================================================================
